---- MODULE Spec2Model ----
(***************************************************************************)
(* Arduino Buttons library (Buttons.h / buttons.cpp): an interrupt-driven, *)
(* debounced button registry.  The main line (begin, stop, the accessors)  *)
(* is interleaved with the edge interrupt handler button_ISR.              *)
(***************************************************************************)
EXTENDS Integers, Sequences, FiniteSets, TLC

\* ------------------------------------------------------------------ bounds
\* Width of the millisecond clock (unsigned long, scaled down from 32 bits).
ClockBits == 8
\* How many times the clock advances in one behaviour.
MaxTicks == 3

\* --------------------------------------------------------------- constants
DEBOUNCE_DELAY == 50
\* delay(10) between pinMode and attachInterrupt in begin().
SETTLE_DELAY == 10

ClockMod == 2 ^ ClockBits

\* Interrupt-capable pins of an Arduino Uno.
Pins == {2, 3}
\* The pin arrays a caller hands to begin(); numberOfButtons is their length.
LineLists == {<< >>, <<2>>, <<2, 3>>}
\* The caller's nullptr argument, and the arguments begin() is called with.
NullPins == [null |-> TRUE, pins |-> << >>]
BeginArgs == {NullPins} \cup {[null |-> FALSE, pins |-> l] : l \in LineLists}
\* The amounts by which millis() is seen to advance between events.
Delays == {30, 50, 51}
\* millis() when the sketch first touches the library.
InitClocks == {0, ClockMod - SETTLE_DELAY, ClockMod - 100}

VARIABLES
    _begun,             \* static boolean _begun
    _numberOfButtons,   \* static size_t _numberOfButtons
    _buttonPins,        \* static byte* _buttonPins: [mem, data]
    _buttonStatus,      \* static volatile Button* _buttonStatus: [mem, data]
    attached,           \* pins with button_ISR attached (CHANGE)
    level,              \* electrical level of each pin, TRUE = HIGH (idle, pulled up)
    now,                \* millis()
    pc,                 \* position of the main line
    frame,              \* arguments and loop index of the main-line call in progress
    last,               \* the main-line call that has just returned, with the state before it
    ticks,              \* clock advances so far
    isrOnFreed,         \* button_ISR has touched storage that was not live
    lastBegin,          \* how the latest begin()/stop() ended
    phase,              \* per entry: accepted transitions and clears since begin()
    tg,                 \* the latest two consecutive edges served by button_ISR
    scn,                \* progress through the [A, B] scenario
    obs                 \* which of phase, tg and scn is being recorded

vars == << _begun, _numberOfButtons, _buttonPins, _buttonStatus, attached, level,
           now, pc, frame, last, ticks, isrOnFreed, lastBegin, phase, tg, scn, obs >>

\* ------------------------------------------------------------ data model
\* A slip: the constructor leaves changeFlag set.
Button_Flagged == [currentState |-> FALSE, changeFlag |-> TRUE, lastChangeTime |-> 0]

\* Buttons::Button::Button()
Button == [currentState |-> FALSE, changeFlag |-> FALSE, lastChangeTime |-> 0]

\* A null pointer.
NullPtr == [mem |-> "null", data |-> << >>]

\* new Button[numberOfButtons]: every element default-constructed.
NewStatus(n) == [mem |-> "live", data |-> [i \in 1..n |-> Button]]

\* new byte[numberOfButtons], then the copy loop of begin().
NewPins(buttonPins) == [mem |-> "live", data |-> buttonPins]

\* delete[] p: the pointer keeps its value, the storage and what it held are
\* released.  delete[] of a null pointer does nothing.
Delete(p) == IF p.mem = "live" THEN [mem |-> "freed", data |-> << >>] ELSE p

\* A stricter check: an empty array is rejected too.
beginRejectsEmpty(a) == a.null \/ a.pins = << >>

\* "if (nullptr == buttonPins) return false;"
beginRejects(a) == a.null

\* attachInterrupt(digitalPinToInterrupt(pin), &Buttons::button_ISR, CHANGE)
attachInterrupt(att, pin) == att \cup {pin}

\* detachInterrupt(digitalPinToInterrupt(pin))
detachInterrupt(att, pin) == att \ {pin}

\* A slip: the loop stops one short and leaves the last line armed.
StopDetachMore_OneShort(i, n) == i < n - 1

\* The loop condition of stop()'s detach loop: i < _numberOfButtons.
StopDetachMore(i, n) == i < n

\* ------------------------------------------------------- debounce engine
\* A slip: the comparison is not strict.
DebounceElapsed_NonStrict(t, lct) == t >= (lct + DEBOUNCE_DELAY) % ClockMod

\* millis() > lastChangeTime + DEBOUNCE_DELAY, in unsigned arithmetic.
DebounceElapsed(t, lct) == t > (lct + DEBOUNCE_DELAY) % ClockMod

\* A slip: lastChangeTime stamped on every run, divergence or not.
ISREntry_StampAlways(e, readState, t) ==
    IF readState # e.currentState
    THEN [currentState   |-> IF DebounceElapsed(t, e.lastChangeTime)
                             THEN readState ELSE e.currentState,
          changeFlag     |-> IF DebounceElapsed(t, e.lastChangeTime)
                             THEN TRUE ELSE e.changeFlag,
          lastChangeTime |-> t]
    ELSE [e EXCEPT !.lastChangeTime = t]

\* A slip: changeFlag set on every divergence, accepted or not.
ISREntry_FlagOnDivergence(e, readState, t) ==
    IF readState # e.currentState
    THEN [currentState   |-> IF DebounceElapsed(t, e.lastChangeTime)
                             THEN readState ELSE e.currentState,
          changeFlag     |-> TRUE,
          lastChangeTime |-> t]
    ELSE e

\* The body of button_ISR's loop for one entry: readState = !digitalRead(pin).
ISREntry(e, readState, t) ==
    IF readState # e.currentState
    THEN [currentState   |-> IF DebounceElapsed(t, e.lastChangeTime)
                             THEN readState ELSE e.currentState,
          changeFlag     |-> IF DebounceElapsed(t, e.lastChangeTime)
                             THEN TRUE ELSE e.changeFlag,
          lastChangeTime |-> t]
    ELSE e

\* button_ISR over entries 0 .. _numberOfButtons-1 (1-based here).
button_ISR(status, pins, n, lvl, t) ==
    [i \in 1..Len(status) |->
        IF i <= n THEN ISREntry(status[i], ~lvl[pins[i]], t) ELSE status[i]]

\* Did button_ISR accept a transition of entry e?
Accepted(e, readState, t) ==
    readState # e.currentState /\ DebounceElapsed(t, e.lastChangeTime)

\* -------------------------------------------------------------- accessors
\* Each accessor yields its return value, the entries afterwards and the
\* number of writes it made to a changeFlag.  id is zero-based.
ClearFlag(st, id) == [st EXCEPT ![id + 1].changeFlag = FALSE]

\* A slip: the flag is cleared before it is captured.
changed_ClearFirst(st, bg, id, clearChangeFlag) ==
    IF ~bg THEN [val |-> FALSE, st |-> st, wr |-> 0]
    ELSE [val |-> IF clearChangeFlag THEN FALSE ELSE st[id + 1].changeFlag,
          st  |-> IF clearChangeFlag THEN ClearFlag(st, id) ELSE st,
          wr  |-> IF clearChangeFlag THEN 1 ELSE 0]

\* A slip: the clear is left out.
changed_NoClear(st, bg, id, clearChangeFlag) ==
    IF ~bg THEN [val |-> FALSE, st |-> st, wr |-> 0]
    ELSE [val |-> st[id + 1].changeFlag, st |-> st, wr |-> 0]

changed(st, bg, id, clearChangeFlag) ==
    IF ~bg THEN [val |-> FALSE, st |-> st, wr |-> 0]
    ELSE [val |-> st[id + 1].changeFlag,
          st  |-> IF clearChangeFlag THEN ClearFlag(st, id) ELSE st,
          wr  |-> IF clearChangeFlag THEN 1 ELSE 0]

down(st, bg, id, clearChangeFlag) ==
    IF ~bg THEN [val |-> FALSE, st |-> st, wr |-> 0]
    ELSE [val |-> st[id + 1].currentState,
          st  |-> IF clearChangeFlag THEN ClearFlag(st, id) ELSE st,
          wr  |-> IF clearChangeFlag THEN 1 ELSE 0]

\* A slip: up() does not hand its clearChangeFlag on to down().
up_NoClear(st, bg, id, clearChangeFlag) ==
    LET d == down(st, bg, id, FALSE)
    IN  [d EXCEPT !.val = ~d.val]

\* "return !down(buttonId, clearChangeFlag);"
up(st, bg, id, clearChangeFlag) ==
    LET d == down(st, bg, id, clearChangeFlag)
    IN  [d EXCEPT !.val = ~d.val]

\* A slip: clicked() hands its clearChangeFlag on to down() as well.
clickedDown_Clearing(st, bg, id, clearChangeFlag) == down(st, bg, id, clearChangeFlag)

\* The sub-call down(buttonId, false) of clicked().
clickedDown(st, bg, id, clearChangeFlag) == down(st, bg, id, FALSE)

\* changed(buttonId, clearChangeFlag) && down(buttonId, false): && evaluates
\* down() only when changed() returned true.
clicked(st, bg, id, clearChangeFlag) ==
    LET c == changed(st, bg, id, clearChangeFlag)
    IN  IF c.val
        THEN LET d == clickedDown(c.st, bg, id, clearChangeFlag)
             IN  [val |-> d.val, st |-> d.st, wr |-> c.wr + d.wr]
        ELSE c

\* released() is declared in Buttons.h and has no definition in buttons.cpp:
\* "changed(...) AND up(...)", symmetric to clicked(), so its sub-call of
\* up() does not clear.
releasedUp(st, bg, id, clearChangeFlag) == up(st, bg, id, FALSE)

released(st, bg, id, clearChangeFlag) ==
    LET c == changed(st, bg, id, clearChangeFlag)
    IN  IF c.val
        THEN LET u == releasedUp(c.st, bg, id, clearChangeFlag)
             IN  [val |-> u.val, st |-> u.st, wr |-> c.wr + u.wr]
        ELSE c

\* A slip: every entry is reset as a whole instead of its changeFlag alone.
clearAllChangeFlags_Reset(st, bg, n) ==
    IF ~bg THEN [val |-> FALSE, st |-> st, wr |-> 0]
    ELSE [val |-> FALSE,
          st  |-> [i \in 1..Len(st) |-> IF i <= n THEN Button ELSE st[i]],
          wr  |-> n]

clearAllChangeFlags(st, bg, n) ==
    IF ~bg THEN [val |-> FALSE, st |-> st, wr |-> 0]
    ELSE [val |-> FALSE,
          st  |-> [i \in 1..Len(st) |->
                     IF i <= n THEN [st[i] EXCEPT !.changeFlag = FALSE] ELSE st[i]],
          wr  |-> n]

\* A slip: the count is returned without looking at _begun.
numberOfButtons_Stale(bg, n) == n

numberOfButtons(bg, n) == IF bg THEN n ELSE 0

\* ------------------------------------------------------------- observers
\* What the claims need to remember of the state a call started in.
Snap ==
    [begun |-> _begun, status |-> _buttonStatus.data, mem |-> _buttonStatus.mem,
     n |-> _numberOfButtons, attached |-> attached, phase |-> phase, scn |-> scn,
     lastBegin |-> lastBegin, flagged |-> FALSE]

NoSnap ==
    [begun |-> FALSE, status |-> << >>, mem |-> "null", n |-> 0, attached |-> {},
     phase |-> << >>, scn |-> 0, lastBegin |-> "never", flagged |-> FALSE]

\* The same for begin() and stop(), which do not look at the entries: flagged
\* tells whether a changeFlag of the running session is set.
CallSnap ==
    [NoSnap EXCEPT !.begun = _begun, !.n = _numberOfButtons, !.lastBegin = lastBegin,
                   !.flagged = (_begun /\ \E i \in 1..Len(_buttonStatus.data) :
                                              _buttonStatus.data[i].changeFlag)]

\* over: the changeFlag value that the call's clear overwrote; capCs: the
\* currentState at the moment the call captured changeFlag; credit: what
\* phase held for the entry when the call returned.
NoCall ==
    [op |-> "none", id |-> 0, flag |-> FALSE, val |-> FALSE, num |-> 0, wr |-> 0,
     arg |-> NullPins, isr |-> FALSE, alloc |-> TRUE, pre |-> NoSnap,
     over |-> FALSE, capCs |-> FALSE, credit |-> "none"]

\* answer: the local "const boolean answer" of changed().
NoFrame ==
    [op |-> "none", arg |-> NullPins, i |-> 0, isr |-> FALSE, pre |-> NoSnap,
     id |-> 0, flag |-> FALSE, answer |-> FALSE, capCs |-> FALSE]

NoPre == [cs |-> FALSE, cf |-> FALSE, agree |-> FALSE, inWin |-> FALSE, at |-> "other"]

TgNone ==
    [n |-> 0, pin |-> 0, id |-> 0, within |-> FALSE, gap |-> 0, pre1 |-> NoPre,
     pre2 |-> NoPre]

Min(a, b) == IF a < b THEN a ELSE b

\* The clock has not passed lastChangeTime + DEBOUNCE_DELAY, as the handler
\* compares them.
InWindow(t, lct) == t <= (lct + DEBOUNCE_DELAY) % ClockMod

\* Where the clock stands against lastChangeTime + DEBOUNCE_DELAY: on it
\* exactly, one millisecond past it, or elsewhere.
Boundary(t, lct) ==
    IF t = lct + DEBOUNCE_DELAY THEN "exact"
    ELSE IF t = lct + DEBOUNCE_DELAY + 1 THEN "plus1"
    ELSE "other"

\* phase[i]: "none" no accepted transition since begin(); "pending" exactly one,
\* no handler run and no clear since; "cleared" the same but cleared since;
\* "other" anything else.
\* When the preempted calls are observed (obs = "pre"), phase[i] is "owed"
\* from an accepted press of button i until a clicked(i, true) returns true
\* ("paid"), and "none" before the first press.
PhaseAfterISR(ph, status, pins, n, lvl, t) ==
    IF obs = "pre"
    THEN [i \in 1..Len(ph) |->
            IF i <= n /\ Accepted(status[i], ~lvl[pins[i]], t) /\ ~lvl[pins[i]]
            THEN "owed" ELSE ph[i]]
    ELSE
    IF obs # "phase" THEN ph ELSE
    [i \in 1..Len(ph) |->
        IF i > n THEN ph[i]
        ELSE IF Accepted(status[i], ~lvl[pins[i]], t)
             THEN (IF ph[i] = "none" THEN "pending" ELSE "other")
             ELSE (IF ph[i] \in {"pending", "cleared"} THEN "other" ELSE ph[i])]

PhaseAfterClear(ph, ids) ==
    IF obs # "phase" THEN ph ELSE
    [i \in 1..Len(ph) |-> IF (i - 1) \in ids /\ ph[i] = "pending" THEN "cleared" ELSE ph[i]]

\* The entry index (1-based) of pin p, 0 when p is not monitored.
IndexOf(pins, p) ==
    IF \E k \in 1..Len(pins) : pins[k] = p
    THEN CHOOSE k \in 1..Len(pins) : pins[k] = p
    ELSE 0

\* tg after an edge on pin p that button_ISR serves on a started registry; lvl
\* and status are those before the edge.
TgAfterEdge(p, lvl, status, pins, t) ==
    LET k == IndexOf(pins, p)
    IN  IF obs # "tg" \/ ~_begun \/ k = 0 \/ k > Len(status) THEN TgNone
        ELSE LET e == status[k]
                 s == [cs |-> e.currentState, cf |-> e.changeFlag,
                       agree |-> ((~lvl[p]) = e.currentState),
                       inWin |-> InWindow(t, e.lastChangeTime),
                       at |-> Boundary(t, e.lastChangeTime)]
             IN  IF tg.n >= 1 /\ tg.pin = p
                 THEN [n |-> 2, pin |-> p, id |-> k - 1,
                       within |-> tg.gap <= DEBOUNCE_DELAY, gap |-> 0,
                       pre1 |-> s, pre2 |-> tg.pre1]
                 ELSE [n |-> 1, pin |-> p, id |-> k - 1, within |-> FALSE, gap |-> 0,
                       pre1 |-> s, pre2 |-> NoPre]

\* The scenario: lines [A, B] = <<2, 3>> freshly started with A idle (1); A
\* pressed at t = 0 (2), released at t = 30 (3), pressed at t = 80 (4); then
\* the first (5) and the next (6) clicked(A, true).  0: not in the scenario.
ScnAfterEdge(p, served) ==
    IF obs # "scn" THEN 0
    ELSE IF served /\ p = 2 /\ scn = 1 /\ now = 0 THEN 2
    ELSE IF served /\ p = 2 /\ scn = 2 /\ now = 30 THEN 3
    ELSE IF served /\ p = 2 /\ scn = 3 /\ now = 80 THEN 4
    ELSE 0

ScnAfterCall(op, id, flag) ==
    IF op = "clicked" /\ id = 0 /\ flag /\ scn \in {4, 5} THEN scn + 1
    ELSE IF scn \in {4, 5} /\ ((flag /\ id = 0) \/ op = "clearAllChangeFlags") THEN 0
    ELSE scn

\* ------------------------------------------------------------------ state
Boot ==
    /\ _begun = FALSE
    /\ _numberOfButtons = 0
    /\ _buttonPins = NullPtr
    /\ _buttonStatus = NullPtr
    /\ attached = {}
    /\ level = [p \in Pins |-> TRUE]
    /\ now \in InitClocks
    /\ pc = "idle"
    /\ frame = NoFrame
    /\ last = NoCall
    /\ ticks = 0
    /\ isrOnFreed = FALSE
    /\ lastBegin = "never"
    /\ phase = << >>
    /\ tg = TgNone
    /\ scn = 0

statics == << _begun, _numberOfButtons, _buttonPins, _buttonStatus, obs >>
world == << level, now, ticks >>

\* The main line is between two calls: nothing is in progress and the value
\* of the previous call has been consumed.
Idle == pc = "idle" /\ last.op = "none"

\* The caller takes the value a call returned and goes on.
Resume ==
    /\ pc = "idle"
    /\ last.op # "none"
    /\ last' = NoCall
    /\ UNCHANGED << statics, attached, world, pc, frame, isrOnFreed, lastBegin, phase,
                    tg, scn >>

\* --------------------------------------------------------------- begin()
\* begin(a) with an argument it rejects at once: "return false;"
BeginReject(a) ==
    /\ Idle
    /\ beginRejects(a)
    /\ last' = [NoCall EXCEPT !.op = "begin", !.val = FALSE, !.arg = a, !.pre = CallSnap]
    /\ lastBegin' = "failed"
    /\ UNCHANGED << statics, attached, world, pc, frame, isrOnFreed, phase, tg, scn >>

\* begin(buttonPins, n) with an array it accepts: "if (_begun) stop();"
BeginCall(a) ==
    /\ Idle
    /\ ~beginRejects(a)
    /\ ticks < MaxTicks
    /\ frame' = [NoFrame EXCEPT !.op = "begin", !.arg = a, !.pre = CallSnap]
    /\ pc' = IF _begun THEN "stop_detach" ELSE "begin_alloc"
    /\ last' = NoCall
    /\ scn' = 0
    /\ UNCHANGED << statics, attached, world, isrOnFreed, lastBegin, phase, tg >>

\* The two new[] succeed: the copy/pinMode loop and delay(10).
BeginAllocOk ==
    /\ pc = "begin_alloc"
    /\ _numberOfButtons' = Len(frame.arg.pins)
    /\ _buttonPins' = NewPins(frame.arg.pins)
    /\ _buttonStatus' = NewStatus(Len(frame.arg.pins))
    /\ now' = (now + SETTLE_DELAY) % ClockMod
    /\ ticks' = ticks + 1
    /\ pc' = "begin_attach"
    /\ frame' = [frame EXCEPT !.i = 0, !.isr = FALSE]
    /\ phase' = IF obs \in {"phase", "pre"}
                THEN [i \in 1..Len(frame.arg.pins) |-> "none"] ELSE << >>
    /\ tg' = TgNone
    /\ UNCHANGED << obs, _begun, attached, level, last, isrOnFreed, lastBegin, scn >>

\* One of the two new[] returns null: "return false".  A byte array that was
\* obtained is left unfilled (its content is never read).
BeginAllocFail(okP, okS) ==
    /\ pc = "begin_alloc"
    /\ ~(okP /\ okS)
    /\ _numberOfButtons' = Len(frame.arg.pins)
    /\ _buttonPins' = IF okP THEN [mem |-> "live", data |-> << >>] ELSE NullPtr
    /\ _buttonStatus' = IF okS THEN NewStatus(Len(frame.arg.pins)) ELSE NullPtr
    /\ pc' = "idle"
    /\ last' = [NoCall EXCEPT !.op = "begin", !.val = FALSE, !.arg = frame.arg,
                              !.isr = frame.isr, !.alloc = FALSE, !.pre = frame.pre]
    /\ frame' = NoFrame
    /\ lastBegin' = "failed"
    /\ phase' = << >>
    /\ tg' = TgNone
    /\ UNCHANGED << obs, _begun, attached, world, isrOnFreed, scn >>

\* One round of the attachInterrupt loop.
BeginAttach ==
    /\ pc = "begin_attach"
    /\ frame.i < Len(frame.arg.pins)
    /\ attached' = attachInterrupt(attached, frame.arg.pins[frame.i + 1])
    /\ frame' = [frame EXCEPT !.i = @ + 1]
    /\ UNCHANGED << statics, world, pc, last, isrOnFreed, lastBegin, phase, tg, scn >>

\* "_begun = true; return true;"
BeginDone ==
    /\ pc = "begin_attach"
    /\ frame.i >= Len(frame.arg.pins)
    /\ _begun' = TRUE
    /\ pc' = "idle"
    /\ last' = [NoCall EXCEPT !.op = "begin", !.val = TRUE, !.arg = frame.arg,
                              !.isr = frame.isr, !.pre = frame.pre]
    /\ frame' = NoFrame
    /\ lastBegin' = "ok"
    /\ scn' = IF obs = "scn" /\ frame.arg.pins = <<2, 3>> /\ ~frame.isr /\ level[2] THEN 1 ELSE 0
    /\ UNCHANGED << _numberOfButtons, _buttonPins, _buttonStatus, attached, world,
                    isrOnFreed, phase, tg, obs >>

\* ---------------------------------------------------------------- stop()
\* stop() on a registry that is not begun: "if (!_begun) return;"
StopNoop ==
    /\ Idle
    /\ ~_begun
    /\ last' = [NoCall EXCEPT !.op = "stop", !.pre = CallSnap]
    /\ UNCHANGED << statics, attached, world, pc, frame, isrOnFreed, lastBegin,
                    phase, tg, scn >>

StopCall ==
    /\ Idle
    /\ _begun
    /\ frame' = [NoFrame EXCEPT !.op = "stop", !.pre = CallSnap]
    /\ pc' = "stop_detach"
    /\ last' = NoCall
    /\ scn' = 0
    /\ UNCHANGED << statics, attached, world, isrOnFreed, lastBegin, phase, tg >>

\* One round of the detachInterrupt loop.
StopDetach ==
    /\ pc = "stop_detach"
    /\ StopDetachMore(frame.i, _numberOfButtons)
    /\ attached' = detachInterrupt(attached, _buttonPins.data[frame.i + 1])
    /\ frame' = [frame EXCEPT !.i = @ + 1]
    /\ UNCHANGED << statics, world, pc, last, isrOnFreed, lastBegin, phase, tg, scn >>

\* "delete[] _buttonPins; delete[] _buttonStatus; _begun = false;", then the
\* return of stop(), or the rest of the begin() that called it.
StopDelete ==
    /\ pc = "stop_detach"
    /\ ~StopDetachMore(frame.i, _numberOfButtons)
    /\ _buttonPins' = Delete(_buttonPins)
    /\ _buttonStatus' = Delete(_buttonStatus)
    /\ _begun' = FALSE
    /\ phase' = << >>
    /\ tg' = TgNone
    /\ IF frame.op = "stop"
       THEN /\ pc' = "idle"
            /\ last' = [NoCall EXCEPT !.op = "stop", !.isr = frame.isr, !.pre = frame.pre]
            /\ frame' = NoFrame
            /\ lastBegin' = "stopped"
       ELSE /\ pc' = "begin_alloc"
            /\ frame' = [frame EXCEPT !.i = 0]
            /\ UNCHANGED << last, lastBegin >>
    /\ UNCHANGED << obs, _numberOfButtons, attached, world, isrOnFreed, scn >>

\* ----------------------------------------------------------- environment
\* A raw edge on pin p.  When button_ISR is attached to p it runs at once,
\* with interrupts masked (millis() does not advance inside it).  Should the
\* storage not be live, what it reads and writes is undefined.
Edge(p) ==
    /\ level' = [level EXCEPT ![p] = ~@]
    /\ IF p \in attached
       THEN /\ last' = NoCall
            /\ frame' = IF pc = "idle" THEN frame ELSE [frame EXCEPT !.isr = TRUE]
            /\ scn' = ScnAfterEdge(p, TRUE)
            /\ IF _buttonStatus.mem = "live" /\ _buttonPins.mem = "live"
               THEN /\ _buttonStatus' =
                         [_buttonStatus EXCEPT !.data =
                            button_ISR(@, _buttonPins.data, _numberOfButtons, level', now)]
                    /\ phase' = PhaseAfterISR(phase, _buttonStatus.data, _buttonPins.data,
                                              _numberOfButtons, level', now)
                    /\ tg' = TgAfterEdge(p, level, _buttonStatus.data, _buttonPins.data, now)
                    /\ UNCHANGED isrOnFreed
               ELSE /\ isrOnFreed' = TRUE
                    /\ \E garbage \in BOOLEAN :
                         _buttonStatus' =
                             [_buttonStatus EXCEPT !.data =
                                [i \in 1..Len(@) |->
                                   [@[i] EXCEPT !.changeFlag = garbage]]]
                    /\ UNCHANGED << phase, tg >>
       ELSE /\ scn' = ScnAfterEdge(p, FALSE)
            /\ UNCHANGED << _buttonStatus, last, frame, isrOnFreed, phase, tg >>
    /\ UNCHANGED << _begun, _numberOfButtons, _buttonPins, attached, now, ticks, pc,
                    lastBegin, obs >>

\* millis() advances by d.
Tick(d) ==
    /\ ticks < MaxTicks
    /\ ticks' = ticks + 1
    /\ now' = (now + d) % ClockMod
    /\ tg' = IF obs = "tg" /\ tg.n >= 1 THEN [tg EXCEPT !.gap = Min(@ + d, DEBOUNCE_DELAY + 1)] ELSE tg
    /\ last' = NoCall
    /\ UNCHANGED << statics, attached, level, pc, frame, isrOnFreed, lastBegin,
                    phase, scn >>

\* --------------------------------------------------------- accessor calls
\* The ids a caller may pass: any when not begun (the storage is not read),
\* an index of the registry when begun.
AccessIds ==
    IF _begun THEN 0..(_numberOfButtons - 1) ELSE 0..(Cardinality(Pins) - 1)

\* An accessor call on the main line, not preempted: r is what it yields.
Call(op, r, id, flag, cleared) ==
    /\ Idle
    /\ _buttonStatus' = [_buttonStatus EXCEPT !.data = r.st]
    /\ last' = [NoCall EXCEPT !.op = op, !.id = id, !.flag = flag, !.val = r.val,
                              !.wr = r.wr, !.pre = Snap]
    /\ phase' = IF r.wr > 0 THEN PhaseAfterClear(phase, cleared) ELSE phase
    /\ scn' = ScnAfterCall(op, id, flag)
    /\ UNCHANGED << _begun, _numberOfButtons, _buttonPins, attached, world, pc, frame,
                    isrOnFreed, lastBegin, tg, obs >>

Clicked(id, f) ==
    Call("clicked", clicked(_buttonStatus.data, _begun, id, f), id, f, {id})

Released(id, f) ==
    Call("released", released(_buttonStatus.data, _begun, id, f), id, f, {id})

Down(id, f) ==
    Call("down", down(_buttonStatus.data, _begun, id, f), id, f, {id})

Up(id, f) ==
    Call("up", up(_buttonStatus.data, _begun, id, f), id, f, {id})

Changed(id, f) ==
    Call("changed", changed(_buttonStatus.data, _begun, id, f), id, f, {id})

ClearAllChangeFlags ==
    Call("clearAllChangeFlags",
         clearAllChangeFlags(_buttonStatus.data, _begun, _numberOfButtons),
         0, FALSE, 0..(_numberOfButtons - 1))

NumberOfButtons ==
    /\ Idle
    /\ last' = [NoCall EXCEPT !.op = "numberOfButtons",
                              !.num = numberOfButtons(_begun, _numberOfButtons),
                              !.pre = Snap]
    /\ UNCHANGED << statics, attached, world, pc, frame, isrOnFreed, lastBegin,
                    phase, tg, scn >>

\* ------------------------------------------- accessor calls, preemptible
\* changed() and clicked() one memory access at a time: button_ISR may run
\* between any two of them.  _begun is not written by button_ISR, so the test
\* of _begun goes with the first access.

\* clicked() or changed() returns val to its caller.
Return(op, id, f, val, over, capCs) ==
    /\ pc' = "idle"
    /\ frame' = NoFrame
    /\ last' = [NoCall EXCEPT !.op = op, !.id = id, !.flag = f, !.val = val,
                              !.isr = frame.isr, !.over = over, !.capCs = capCs,
                              !.credit = IF _begun THEN phase[id + 1] ELSE "none"]
    /\ phase' = IF _begun /\ op = "clicked" /\ f /\ val
                THEN [phase EXCEPT ![id + 1] = "paid"] ELSE phase

\* changed(): "if (!_begun) return false;
\*             const boolean answer = _buttonStatus[buttonId].changeFlag;"
\* (also as the first operand of clicked()).
Capture(op, id, f) ==
    LET answer == _begun /\ _buttonStatus.data[id + 1].changeFlag
        capCs  == _begun /\ _buttonStatus.data[id + 1].currentState
    IN  /\ Idle
        /\ IF (_begun /\ f) \/ (op = "clicked" /\ answer)
           THEN /\ pc' = IF f THEN "changed_clear" ELSE "clicked_down"
                /\ frame' = [NoFrame EXCEPT !.op = op, !.id = id, !.flag = f,
                                            !.answer = answer, !.capCs = capCs]
                /\ UNCHANGED << last, phase >>
           ELSE Return(op, id, f, answer, FALSE, capCs)
        /\ UNCHANGED << statics, attached, world, isrOnFreed, lastBegin, tg, scn >>

ChangedCapture(id, f) == Capture("changed", id, f)

ClickedCapture(id, f) == Capture("clicked", id, f)

\* changed(): "if (clearChangeFlag) _buttonStatus[buttonId].changeFlag = false;
\*             return answer;"; in clicked(), && goes on to down() only when
\* answer is true.
ChangedClear ==
    /\ pc = "changed_clear"
    /\ _buttonStatus' = [_buttonStatus EXCEPT !.data = ClearFlag(@, frame.id)]
    /\ IF frame.op = "clicked" /\ frame.answer
       THEN pc' = "clicked_down" /\ UNCHANGED << last, phase, frame >>
       ELSE Return(frame.op, frame.id, frame.flag, frame.answer,
                   _buttonStatus.data[frame.id + 1].changeFlag, frame.capCs)
    /\ UNCHANGED << _begun, _numberOfButtons, _buttonPins, obs, attached, world,
                    isrOnFreed, lastBegin, tg, scn >>

\* clicked(): "&& down(buttonId, false)": "return
\* _buttonStatus[buttonId].currentState;".
ClickedDown ==
    /\ pc = "clicked_down"
    /\ Return("clicked", frame.id, frame.flag,
              clickedDown(_buttonStatus.data, _begun, frame.id, frame.flag).val,
              FALSE, frame.capCs)
    /\ UNCHANGED << statics, attached, world, isrOnFreed, lastBegin, tg, scn >>

\* The debounce engine and the accessors on a registry that is started once.
Init == Boot /\ obs = "phase"

Next ==
    \/ \E a \in BeginArgs : lastBegin = "never" /\ BeginCall(a)
    \/ BeginAllocOk
    \/ BeginAttach
    \/ BeginDone
    \/ \E p \in Pins : Edge(p)
    \/ \E d \in Delays : Tick(d)
    \/ \E id \in AccessIds, f \in BOOLEAN : Clicked(id, f)
    \/ \E id \in AccessIds, f \in BOOLEAN : Released(id, f)
    \/ \E id \in AccessIds, f \in BOOLEAN : Down(id, f)
    \/ \E id \in AccessIds, f \in BOOLEAN : Up(id, f)
    \/ \E id \in AccessIds, f \in BOOLEAN : Changed(id, f)
    \/ ClearAllChangeFlags
    \/ NumberOfButtons
    \/ Resume

Spec == Init /\ [][Next]_vars

\* The debounce engine alone, recording pairs of consecutive edges: the main
\* line starts the registry once and clears change flags.
InitToggle == Boot /\ obs = "tg"

NextToggle ==
    \/ \E a \in BeginArgs : lastBegin = "never" /\ BeginCall(a)
    \/ BeginAllocOk
    \/ BeginAttach
    \/ BeginDone
    \/ \E p \in Pins : Edge(p)
    \/ \E d \in Delays : Tick(d)
    \/ \E id \in AccessIds : Changed(id, TRUE)
    \/ Resume

SpecToggle == InitToggle /\ [][NextToggle]_vars

\* The same, recording the progress of the scenario.
InitScenario == Boot /\ obs = "scn"
SpecScenario == InitScenario /\ [][Next]_vars

\* changed() and clicked() preempted by button_ISR on a registry that is
\* started once.
InitPreempt == Boot /\ obs = "pre"

NextPreempt ==
    \/ \E a \in BeginArgs : lastBegin = "never" /\ BeginCall(a)
    \/ BeginAllocOk
    \/ BeginAttach
    \/ BeginDone
    \/ \E p \in Pins : Edge(p)
    \/ \E d \in Delays : Tick(d)
    \/ \E id \in AccessIds, f \in BOOLEAN : ChangedCapture(id, f)
    \/ \E id \in AccessIds, f \in BOOLEAN : ClickedCapture(id, f)
    \/ ChangedClear
    \/ ClickedDown
    \/ Resume

SpecPreempt == InitPreempt /\ [][NextPreempt]_vars

\* The life cycle: begin(), stop() and restarts step by step, interleaved
\* with edges; the clock advances only by the delay(10) of begin().
InitLife == Boot /\ obs = "none"

NextLife ==
    \/ \E a \in BeginArgs : BeginReject(a)
    \/ \E a \in BeginArgs : BeginCall(a)
    \/ BeginAllocOk
    \/ \E okP, okS \in BOOLEAN : BeginAllocFail(okP, okS)
    \/ BeginAttach
    \/ BeginDone
    \/ StopNoop
    \/ StopCall
    \/ StopDetach
    \/ StopDelete
    \/ \E p \in Pins : Edge(p)
    \/ \E id \in AccessIds, f \in BOOLEAN : Clicked(id, f)
    \/ \E id \in AccessIds, f \in BOOLEAN : Down(id, f)
    \/ \E id \in AccessIds, f \in BOOLEAN : Up(id, f)
    \/ \E id \in AccessIds, f \in BOOLEAN : Changed(id, f)
    \/ ClearAllChangeFlags
    \/ NumberOfButtons
    \/ Resume

SpecLife == InitLife /\ [][NextLife]_vars

\* ================================================================ claims
\* The entry of the line whose pair of edges tg records.
TgEntry == _buttonStatus.data[tg.id + 1]

\* Two consecutive edges of one line, each served by button_ISR, no more than
\* DEBOUNCE_DELAY ms apart, on an entry whose changeFlag was false.
TgPair == tg.n = 2 /\ tg.within /\ ~tg.pre2.cf /\ _buttonStatus.mem = "live"

\* C1 as stated: whatever the clock at the first toggle, two toggles within
\* DEBOUNCE_DELAY ms of each other leave currentState as it was before the
\* first toggle and changeFlag false.
C1_SuppressedWhatever ==
    TgPair => (TgEntry.currentState = tg.pre2.cs /\ ~TgEntry.changeFlag)

\* C1 amended: two consecutive toggles within DEBOUNCE_DELAY ms of each other
\* leave currentState as before the first toggle and changeFlag false,
\* provided that before the first toggle the raw level agreed with
\* currentState and that the first toggle comes while the clock has not
\* passed lastChangeTime + DEBOUNCE_DELAY (as button_ISR compares them).
C1_DebounceSuppression ==
    (TgPair /\ tg.pre2.agree /\ tg.pre2.inWin)
        => (TgEntry.currentState = tg.pre2.cs /\ ~TgEntry.changeFlag)

\* A press and a release 30 or 50 ms apart, the press inside the window.
C1_Witness ==
    /\ TgPair /\ tg.pre2.agree /\ tg.pre2.inWin
    /\ ~tg.pre2.cs
    /\ TgEntry.lastChangeTime # 0
    /\ _begun

\* ------------------------------------------------------------------- C2
\* C2: after exactly one accepted transition of a button and no further run
\* of button_ISR, changed(id, *) returns true as long as the flag has not been
\* cleared (so every changed(id, false), and the first changed(id, true)), and
\* false once it has been cleared.
C2_SinglePendingChange ==
    (last.op = "changed" /\ last.pre.begun /\ obs = "phase")
        => /\ last.pre.phase[last.id + 1] = "pending" => last.val
           /\ last.pre.phase[last.id + 1] = "cleared" => ~last.val

\* A changed(id, true) that returns false because the one pending change was
\* cleared before.
C2_Witness ==
    /\ last.op = "changed" /\ last.pre.begun /\ obs = "phase"
    /\ last.flag /\ ~last.val
    /\ last.pre.phase[last.id + 1] = "cleared"

\* ------------------------------------------------------------------- C9
\* C9: lines [A, B] freshly started; raw(A) pressed at t = 0, released at
\* t = 30, pressed at t = 80: down(A, false) returns false at every point
\* before the t = 80 event; after it the first clicked(A, true) returns true
\* and the next one false.
C9_Scenario ==
    /\ (last.op = "down" /\ last.id = 0 /\ ~last.flag /\ last.pre.scn \in 1..3)
          => ~last.val
    /\ (last.op = "clicked" /\ last.id = 0 /\ last.flag /\ last.pre.scn = 4)
          => last.val
    /\ (last.op = "clicked" /\ last.id = 0 /\ last.flag /\ last.pre.scn = 5)
          => ~last.val

\* The second clicked(A, true) after the three events, returning false.
C9_Witness ==
    /\ last.op = "clicked" /\ last.id = 0 /\ last.flag /\ last.pre.scn = 5
    /\ ~last.val
    /\ now = 80
    /\ _buttonStatus.data[1].currentState

\* ------------------------------------------------------------------ C10
\* C10: on a begun registry, not preempted, clicked(id, f) returns changeFlag
\* (before the call) AND currentState, leaves currentState and lastChangeTime
\* alone, and writes changeFlag once, clearing it, when f is true and not at
\* all when f is false; no other entry is touched.
C10_ClickedOnce ==
    (last.op = "clicked" /\ last.pre.begun)
        => LET e0 == last.pre.status[last.id + 1]
               e1 == _buttonStatus.data[last.id + 1]
           IN  /\ last.val = (e0.changeFlag /\ e0.currentState)
               /\ e1.currentState = e0.currentState
               /\ e1.lastChangeTime = e0.lastChangeTime
               /\ last.wr = (IF last.flag THEN 1 ELSE 0)
               /\ e1.changeFlag = (IF last.flag THEN FALSE ELSE e0.changeFlag)
               /\ \A i \in 1..Len(last.pre.status) :
                     i # last.id + 1 => _buttonStatus.data[i] = last.pre.status[i]

\* A clicked(id, true) that returned true and cleared the flag.
C10_Witness ==
    /\ last.op = "clicked" /\ last.pre.begun
    /\ last.flag /\ last.val /\ last.wr = 1
    /\ last.pre.status[last.id + 1].changeFlag
    /\ ~_buttonStatus.data[last.id + 1].changeFlag

\* ------------------------------------------------------------------- C3
Accessors == {"clicked", "down", "up", "changed", "clearAllChangeFlags", "numberOfButtons"}

\* An accessor has just returned on a registry that was not begun.
NotBegunCall == last.op \in Accessors /\ ~last.pre.begun

\* C3 as stated: when the registry is not begun, clicked, down, up and changed
\* return false, numberOfButtons() returns 0 and nothing is changed.
C3_AllFalse ==
    NotBegunCall
        => /\ last.op \in {"clicked", "down", "up", "changed"} => ~last.val
           /\ last.op = "numberOfButtons" => last.num = 0
           /\ _buttonStatus.data = last.pre.status /\ last.wr = 0

\* C3 amended: when the registry is not begun, clicked, down and changed
\* return false, up returns true (it is the negation of down),
\* numberOfButtons() returns 0, and no accessor changes anything.
C3_NotStartedSafety ==
    NotBegunCall
        => /\ last.op \in {"clicked", "down", "changed"} => ~last.val
           /\ last.op = "up" => last.val
           /\ last.op = "numberOfButtons" => last.num = 0
           /\ _buttonStatus.data = last.pre.status /\ last.wr = 0
           /\ _buttonStatus.mem = last.pre.mem /\ ~_begun

\* numberOfButtons() returning 0 after a stop() of a registry of two lines.
C3_Witness ==
    /\ NotBegunCall
    /\ last.op = "numberOfButtons" /\ last.num = 0
    /\ lastBegin = "stopped" /\ _numberOfButtons = 2

\* ------------------------------------------------------------------- C4
\* C4 as stated: begin() fails whenever the array is null or empty, and
\* succeeds only for a non-empty one.
C4_EmptyFails ==
    last.op = "begin"
        => /\ (last.arg.null \/ last.arg.pins = << >>) => ~last.val
           /\ last.val => last.arg.pins # << >>

\* C4 amended: begin() fails whenever the array is null (or one of its two
\* allocations fails) and succeeds otherwise, also for an empty non-null
\* array (numberOfButtons == 0).
C4_BeginFailsOnNull ==
    last.op = "begin" => (last.val <=> (~last.arg.null /\ last.alloc))

\* begin() of an empty array succeeding: begun, with no buttons.
C4_Witness ==
    /\ last.op = "begin" /\ last.val
    /\ ~last.arg.null /\ last.arg.pins = << >>
    /\ _begun /\ _numberOfButtons = 0

\* ------------------------------------------------------------------- C5
\* C5: whenever begin() returns failure the registry is not begun afterwards
\* (numberOfButtons() == 0 and the accessors return false), whether or not it
\* was begun before.
C5_FailedBeginNotBegun ==
    (last.op = "begin" /\ ~last.val)
        => /\ numberOfButtons(_begun, _numberOfButtons) = 0
           /\ \A id \in AccessIds, f \in BOOLEAN :
                 /\ ~down(_buttonStatus.data, _begun, id, f).val
                 /\ ~changed(_buttonStatus.data, _begun, id, f).val
                 /\ ~clicked(_buttonStatus.data, _begun, id, f).val

\* ------------------------------------------------------------------- C6
\* A successful begin() on a registry that was begun has just returned.
Restarted == last.op = "begin" /\ last.val /\ last.pre.begun

AllDefault ==
    \A i \in 1..Len(_buttonStatus.data) :
        /\ _buttonStatus.data[i].currentState = FALSE
        /\ _buttonStatus.data[i].changeFlag = FALSE
        /\ _buttonStatus.data[i].lastChangeTime = 0

\* C6 as stated: after a successful begin() on a begun registry,
\* numberOfButtons() is the size of the new line set and every entry is
\* (false, false, 0).
C6_AllDefaultAfterRestart ==
    Restarted
        => /\ numberOfButtons(_begun, _numberOfButtons) = Len(last.arg.pins)
           /\ Len(_buttonStatus.data) = Len(last.arg.pins)
           /\ AllDefault

\* C6 amended: after a successful begin() on a begun registry,
\* numberOfButtons() is the size of the new line set, and every entry is
\* (false, false, 0) unless button_ISR has run between the arming of the new
\* lines and the return of begin(); the entries are newly constructed at the
\* allocation, whatever the previous session left.
C6_RestartResets ==
    /\ Restarted
          => /\ numberOfButtons(_begun, _numberOfButtons) = Len(last.arg.pins)
             /\ Len(_buttonStatus.data) = Len(last.arg.pins)
             /\ ~last.isr => AllDefault
    /\ (pc = "begin_attach" /\ ~frame.isr)
          => (AllDefault /\ Len(_buttonStatus.data) = Len(frame.arg.pins))

\* A restart with another line set while a changeFlag of the previous session
\* was set.
C6_Witness ==
    /\ Restarted /\ ~last.isr
    /\ last.pre.flagged
    /\ last.pre.n # Len(last.arg.pins)
    /\ Len(last.arg.pins) > 0

\* ------------------------------------------------------------------- C7
\* C7: stop() (also the one inside a restarting begin()) disarms every line
\* before it releases the storage: button_ISR never touches released storage,
\* and while any line is armed both arrays are live.
C7_DisarmBeforeRelease ==
    /\ ~isrOnFreed
    /\ attached # {} => (_buttonStatus.mem = "live" /\ _buttonPins.mem = "live")

\* A stop() that was interrupted by button_ISR while it was disarming, and
\* has released the storage.
C7_Witness ==
    /\ last.op = "stop" /\ last.pre.begun /\ last.isr
    /\ _buttonStatus.mem = "freed" /\ attached = {}

\* ------------------------------------------------------------------- C8
\* C8: stop() on a registry that was never started, whose begin() failed, or
\* that is already stopped changes no state.
C8_StopIdempotent ==
    (last.op = "stop" /\ last.pre.lastBegin \in {"never", "failed", "stopped"})
        => /\ _begun = last.pre.begun
           /\ lastBegin = last.pre.lastBegin

\* ------------------------------------------------------------------ C11
\* C11: released(id, f) mirrors clicked(): on a begun registry it returns
\* changeFlag (before the call) AND NOT currentState and clears changeFlag
\* iff f is true, leaving everything else alone; on a registry that is not
\* begun it returns false and changes nothing.
C11_ReleasedMirror ==
    last.op = "released"
        => IF last.pre.begun
           THEN LET e0 == last.pre.status[last.id + 1]
                    e1 == _buttonStatus.data[last.id + 1]
                IN  /\ last.val = (e0.changeFlag /\ ~e0.currentState)
                    /\ e1.changeFlag = (IF last.flag THEN FALSE ELSE e0.changeFlag)
                    /\ e1.currentState = e0.currentState
                    /\ e1.lastChangeTime = e0.lastChangeTime
                    /\ \A i \in 1..Len(last.pre.status) :
                          i # last.id + 1 => _buttonStatus.data[i] = last.pre.status[i]
           ELSE ~last.val /\ _buttonStatus.data = last.pre.status

\* A released(id, true) that returned true after an accepted release and
\* cleared the flag.
C11_Witness ==
    /\ last.op = "released" /\ last.pre.begun
    /\ last.flag /\ last.val
    /\ last.pre.status[last.id + 1].changeFlag
    /\ ~last.pre.status[last.id + 1].currentState
    /\ last.pre.status[last.id + 1].lastChangeTime # 0
    /\ ~_buttonStatus.data[last.id + 1].changeFlag

\* ------------------------------------------------------------------ C12
\* C12: in every reachable state, begun or not, and for every id and every
\* clearFlag f, up(id, f) returns the negation of what down(id, f) returns in
\* that state and leaves the entries as down(id, f) leaves them; an up() call
\* that has just returned did so.
C12_UpNegatesDown ==
    /\ \A id \in AccessIds, f \in BOOLEAN :
          LET u == up(_buttonStatus.data, _begun, id, f)
              d == down(_buttonStatus.data, _begun, id, f)
          IN  u.val = ~d.val /\ u.st = d.st /\ u.wr = d.wr
    /\ last.op = "up"
          => LET d == down(last.pre.status, last.pre.begun, last.id, last.flag)
             IN  last.val = ~d.val /\ _buttonStatus.data = d.st

\* up(id, true) on a pressed button whose changeFlag was set: it returns
\* false and clears the flag, as down(id, true) would.
C12_Witness ==
    /\ last.op = "up" /\ last.pre.begun /\ last.flag /\ ~last.val
    /\ last.pre.status[last.id + 1].changeFlag
    /\ ~_buttonStatus.data[last.id + 1].changeFlag
    /\ _buttonStatus.data[last.id + 1].currentState

\* ------------------------------------------------------------------ C13
\* The elapsed time since lct on a clock that wraps: (t - lct) mod 2^w.
Elapsed(t, lct) == (t - lct + ClockMod) % ClockMod

\* This step is an edge that button_ISR serves on live storage.
ServedEdge ==
    /\ \E p \in attached : level'[p] # level[p]
    /\ _buttonStatus.mem = "live" /\ _buttonPins.mem = "live"

\* Entry i (1-based) diverges from the raw level button_ISR reads in this step.
Diverges(i) == (~level'[_buttonPins.data[i]]) # _buttonStatus.data[i].currentState

\* Entry i is promoted to the raw level in this step.
Promoted(i) ==
    /\ _buttonStatus'.data[i].currentState = ~level'[_buttonPins.data[i]]
    /\ _buttonStatus'.data[i].changeFlag

\* C13: the acceptance test is correct under wraparound of the clock: a
\* divergence is accepted iff the elapsed time (now - lastChangeTime) mod 2^w
\* exceeds DEBOUNCE_DELAY, also when now has wrapped past zero or
\* lastChangeTime + DEBOUNCE_DELAY overflows.
C13_WrapCorrect ==
    [][ServedEdge
          => \A i \in 1.._numberOfButtons :
                Diverges(i)
                   => (Promoted(i)
                         <=> Elapsed(now, _buttonStatus.data[i].lastChangeTime)
                                > DEBOUNCE_DELAY)]_vars

\* ------------------------------------------------------------------ C14
\* Entry i has observed a divergence before (lastChangeTime is stamped at
\* every divergence) and this one comes no more than DEBOUNCE_DELAY ms later.
Chatters(i) ==
    /\ Diverges(i)
    /\ _buttonStatus.data[i].lastChangeTime # 0
    /\ Elapsed(now, _buttonStatus.data[i].lastChangeTime) <= DEBOUNCE_DELAY

\* C14: a chattering line is never promoted: a divergence that button_ISR
\* observes no more than DEBOUNCE_DELAY ms after the previous divergence of
\* that button leaves currentState and changeFlag as they were and sets
\* lastChangeTime to the current time.
C14_ChatterNeverPromoted ==
    [][ServedEdge
          => \A i \in 1.._numberOfButtons :
                Chatters(i)
                   => /\ _buttonStatus'.data[i].currentState
                            = _buttonStatus.data[i].currentState
                      /\ _buttonStatus'.data[i].changeFlag
                            = _buttonStatus.data[i].changeFlag
                      /\ _buttonStatus'.data[i].lastChangeTime = now]_vars

\* ------------------------------------------------------------------ C15
\* C15: the acceptance comparison is strict: a divergence that button_ISR
\* observes when now = lastChangeTime + DEBOUNCE_DELAY exactly is rejected
\* (currentState and changeFlag unchanged), and one observed when
\* now = lastChangeTime + DEBOUNCE_DELAY + 1 is accepted (currentState set to
\* the raw state, changeFlag set).
C15_StrictComparison ==
    [][ServedEdge
          => \A i \in 1.._numberOfButtons :
                LET e == _buttonStatus.data[i]
                    f == _buttonStatus'.data[i]
                IN  Diverges(i)
                       => /\ Boundary(now, e.lastChangeTime) = "exact"
                               => /\ f.currentState = e.currentState
                                  /\ f.changeFlag = e.changeFlag
                          /\ Boundary(now, e.lastChangeTime) = "plus1"
                               => /\ f.currentState = ~level'[_buttonPins.data[i]]
                                  /\ f.changeFlag]_vars

\* The latest edge made the raw level diverge from an entry that agreed with
\* it, one millisecond past lastChangeTime + DEBOUNCE_DELAY and after an
\* earlier edge of that line, and the entry was promoted.
C15_Witness ==
    /\ tg.n = 2 /\ tg.pre1.at = "plus1" /\ tg.pre1.agree
    /\ _buttonStatus.mem = "live"
    /\ TgEntry.currentState = ~tg.pre1.cs
    /\ TgEntry.changeFlag
    /\ TgEntry.lastChangeTime = now
    /\ now > DEBOUNCE_DELAY + 1

\* ------------------------------------------------------------------ C16
\* This step is the call of an accessor.
AccessorStep ==
    /\ last.op = "none"
    /\ last'.op \in {"clicked", "down", "up", "changed", "clearAllChangeFlags",
                     "numberOfButtons"}

\* C16: one writer per field: no accessor modifies an entry's currentState or
\* lastChangeTime or sets a changeFlag; an accessor called with
\* clearFlag = false modifies no entry at all; and button_ISR never clears a
\* changeFlag.
C16_SingleWriter ==
    [][/\ AccessorStep
            => /\ Len(_buttonStatus'.data) = Len(_buttonStatus.data)
               /\ \A i \in 1..Len(_buttonStatus.data) :
                     LET e == _buttonStatus.data[i]
                         f == _buttonStatus'.data[i]
                     IN  /\ f.currentState = e.currentState
                         /\ f.lastChangeTime = e.lastChangeTime
                         /\ f.changeFlag => e.changeFlag
               /\ (last'.op \in {"clicked", "down", "up", "changed"} /\ ~last'.flag)
                     => _buttonStatus' = _buttonStatus
               /\ last'.op = "numberOfButtons" => _buttonStatus' = _buttonStatus
       /\ ServedEdge
            => \A i \in 1..Len(_buttonStatus.data) :
                  _buttonStatus.data[i].changeFlag => _buttonStatus'.data[i].changeFlag
      ]_vars

\* clearAllChangeFlags() has cleared the flags of two buttons that button_ISR
\* has stamped, the first one pressed with its flag set, and left the rest of
\* both entries alone.
C16_Witness ==
    /\ last.op = "clearAllChangeFlags" /\ last.pre.begun /\ last.pre.n = 2
    /\ last.pre.status[1].changeFlag /\ last.pre.status[1].currentState
    /\ last.pre.status[2].lastChangeTime # 0
    /\ \A i \in 1..2 :
          _buttonStatus.data[i] = [last.pre.status[i] EXCEPT !.changeFlag = FALSE]

\* ------------------------------------------------------------------ C17
\* The entries after one run of button_ISR at the present clock and levels.
RunOnce ==
    button_ISR(_buttonStatus.data, _buttonPins.data, _numberOfButtons, level, now)

\* The entries after a second run at the same clock and levels.
RunTwice == button_ISR(RunOnce, _buttonPins.data, _numberOfButtons, level, now)

\* C17: button_ISR is idempotent and total over the registry: at a fixed
\* clock and fixed raw levels two runs leave every entry as one run does, and
\* a run that serves an edge of any line applies the transition rule to every
\* entry 0..N-1, each from its own line's level, its own fields and the clock.
C17_IdempotentTotal ==
    /\ [](attached # {} => RunTwice = RunOnce)
    /\ [][ServedEdge
             => \A i \in 1.._numberOfButtons :
                   _buttonStatus'.data[i]
                      = ISREntry(_buttonStatus.data[i], ~level'[_buttonPins.data[i]], now)
         ]_vars

\* ------------------------------------------------------------------ C18
\* C18: no change is lost under preemption: when button_ISR may run between
\* any two memory accesses of changed(i, true), the call never clears a
\* changeFlag that button_ISR has set without returning true (the flag the
\* clear overwrote was reported by the call).
C18_NoLostChange ==
    (last.op = "changed" /\ last.flag /\ last.over) => last.val

\* ------------------------------------------------------------------ C19
\* C19: a click is reported at most once under preemption: when button_ISR
\* may run between the changed() and the down() sub-call of clicked(i, true),
\* every clicked(i, true) that returns true has captured a flag set by a
\* transition into the pressed state (the entry was pressed when the flag
\* was captured), and answers a press that no earlier clicked(i, true) has
\* answered.
C19_ClickOnce ==
    (last.op = "clicked" /\ last.flag /\ last.val)
        => (last.capCs /\ last.credit = "owed")

\* ------------------------------------------------------------------ C20
\* C20: convergence to the settled level: with button_ISR run once per raw
\* edge and never otherwise, once more than DEBOUNCE_DELAY ms have passed
\* since the last edge of a line of a started registry, the entry's
\* currentState equals the inverted raw level of that line.
C20_Converges ==
    (tg.n >= 1 /\ tg.gap > DEBOUNCE_DELAY /\ _begun /\ _buttonStatus.mem = "live")
        => TgEntry.currentState = ~level[tg.pin]

====
